---- MODULE Spec2Model ----
(***************************************************************************)
(* A model of tecontroller/res/problib.py: the memoised congestion         *)
(* recurrence of ProbabiliyCalculator with its marshal-backed store, and   *)
(* the path enumerator getAllPathsLimDAG.                                   *)
(*                                                                         *)
(* Python floats are modelled as exact rationals <<numerator, denominator>>*)
(* in lowest terms: 0.0 is <<0, 1>> and 1.0 is <<1, 1>>.  Rounding is not  *)
(* modelled; every comparison of probabilities below is a comparison of    *)
(* the exact values the float expressions denote.                          *)
(***************************************************************************)
EXTENDS Integers, Sequences, FiniteSets, TLC

(***************************************************************************)
(* Bounds of the model.                                                    *)
(***************************************************************************)
\* largest number of paths m passed to the recurrence
MaxM == 3
\* largest number of flow units n passed to the recurrence
MaxN == 4
\* largest per-path threshold k passed to the recurrence
MaxK == 2
\* number of accessor calls in one run of Spec
MaxCalls == 3
\* largest number of edges of the graph
MaxEdges == 4
\* largest hop limit passed to getAllPathsLimDAG
MaxHops == 2
\* largest number of flows passed to ExactCongestionProbability
MaxFlows == 2
\* largest flow size
MaxSize == 1
\* largest capacity of an edge
MaxCap == 2
\* largest capacity of an edge of the graph passed to ExactCongestionProbability
MaxExactCap == 1
\* largest number of edges of the capacitated graph
MaxLinks == 3
\* largest integer passed as percentage to SampledCongestionProbability
MaxPercentage == 5
\* largest number of flows handed to createFlow
MaxGenFlows == 2
\* largest start_time of a flow, in ticks of the clock
MaxStart == 2

VARIABLES
    up,      \* TRUE while a process holding a ProbabiliyCalculator is running
    sdict,   \* self.sdict: the in-memory store, (m,n,k) -> probability
    file,    \* the durable file self.dump_filename
    last,    \* the last thing that happened: which call, its key, what it returned
    calls,   \* number of accessor calls made so far
    lost,    \* keys whose in-memory entry a crash has discarded
    dag,     \* the caller's graph: its nodes and its directed edges
    found,   \* the last getAllPathsLimDAG call: its arguments and what it returned
    exact,   \* the last ExactCongestionProbability call: its arguments and what it did
    net,     \* the caller's graph with a capacity on every edge
    flow,    \* the last flowCongestionProbability call: its arguments and what it returned
    sampled, \* the last SampledCongestionProbability call: its arguments and what it did
    threads, \* for each thread of a multi-threaded host, where its call stands
    interleaved, \* TRUE once a thread took a step while another was inside a call
    tg       \* the traffic generator process: its object, its threads, the requests sent

vars == <<up, sdict, file, last, calls, lost, dag, found, exact, net, flow, sampled,
          threads, interleaved, tg>>

\* the variables of the engine and its store, and the others
storeVars == <<up, sdict, file, last, calls, lost>>
notStoreVars == <<dag, found, exact, net, flow, sampled, threads, interleaved,
    tg>>

\* the variables of the graph and its path enumeration, and the others
graphVars == <<dag, found>>
notGraphVars == <<up, sdict, file, last, calls, lost, exact, net, flow, sampled, threads, interleaved,
    tg>>

\* the variables other than the one of the exact enumeration
notExactVars == <<up, sdict, file, last, calls, lost, dag, found, net, flow, sampled, threads, interleaved,
    tg>>

\* the variables other than those of the capacitated graph and its flow queries
notFlowVars == <<up, sdict, file, last, calls, lost, dag, found, exact, sampled, threads, interleaved,
    tg>>

\* the variables the steps of a thread leave alone
notThreadVars == <<up, last, calls, lost, dag, found, exact, net, flow, sampled, tg>>

\* the variables other than the one of the traffic generator
notGeneratorVars == <<up, sdict, file, last, calls, lost, dag, found, exact, net, flow, sampled,
    threads, interleaved>>

\* the variables other than the one of the sampled estimation
notSampledVars == <<up, sdict, file, last, calls, lost, dag, found, exact, net, flow, threads, interleaved,
    tg>>

(***************************************************************************)
(* Float arithmetic (exact).                                               *)
(***************************************************************************)
RECURSIVE GCD(_, _)
GCD(a, b) == IF b = 0 THEN a ELSE GCD(b, a % b)

Abs(x) == IF x < 0 THEN -x ELSE x

\* the float denoted by num/den (den > 0)
Float(num, den) ==
    LET g == GCD(Abs(num), den)
    IN  <<num \div g, den \div g>>

Zero == Float(0, 1)
One == Float(1, 1)

FAdd(x, y) == Float(x[1] * y[2] + y[1] * x[2], x[2] * y[2])
FSub(x, y) == Float(x[1] * y[2] - y[1] * x[2], x[2] * y[2])
FMul(x, y) == Float(x[1] * y[1], x[2] * y[2])

RECURSIVE FPow(_, _)
FPow(x, e) == IF e = 0 THEN One ELSE FMul(x, FPow(x, e - 1))

\* scipy.misc.comb(n, t): the binomial coefficient
RECURSIVE comb(_, _)
comb(n, t) ==
    IF t < 0 \/ t > n THEN 0
    ELSE IF t = 0 \/ t = n THEN 1
    ELSE comb(n - 1, t - 1) + comb(n - 1, t)

(***************************************************************************)
(* The store and its marshal encoding.                                     *)
(***************************************************************************)
Keys == (0..MaxM) \X (0..MaxN) \X (0..MaxK)

EmptyDict == [key \in {} |-> Zero]

\* self.sdict[key] = v
Put(s, key, v) == [x \in DOMAIN s \cup {key} |-> IF x = key THEN v ELSE s[x]]

Tok(tag, val) == [tag |-> tag, val |-> val]

KeyLeq(a, b) ==
    \/ a[1] < b[1]
    \/ a[1] = b[1] /\ a[2] < b[2]
    \/ a[1] = b[1] /\ a[2] = b[2] /\ a[3] <= b[3]

RECURSIVE KeySeq(_)
KeySeq(S) ==
    IF S = {} THEN <<>>
    ELSE LET x == CHOOSE x \in S : \A y \in S : KeyLeq(x, y)
         IN  <<x>> \o KeySeq(S \ {x})

RECURSIVE DumpItems(_, _)

\* DumpItems writing each float as text of two decimals, as a marshal version
\* without binary floats writes a shortened repr
DumpItemsAsText(s, ks) ==
    IF ks = <<>> THEN <<>>
    ELSE <<Tok("(", Head(ks)),
           Tok("g", Float((s[Head(ks)][1] * 100) \div s[Head(ks)][2], 100))>>
         \o DumpItems(s, Tail(ks))

\* the dict's items in the order written: each key tuple, then its binary float
DumpItems(s, ks) ==
    IF ks = <<>> THEN <<>>
    ELSE <<Tok("(", Head(ks)), Tok("g", s[Head(ks)])>> \o DumpItems(s, Tail(ks))

\* marshal.dumps(dict, 4): '{', then each key tuple and its binary float, then
\* the terminating '0'
dumps(s) == <<Tok("{", <<>>)>> \o DumpItems(s, KeySeq(DOMAIN s)) \o <<Tok("0", <<>>)>>

\* marshal.loads(data): raises unless data begins with a whole dict dump; what
\* follows the dump's terminating '0' is ignored
loads(data) ==
    LET ends == {i \in 1..Len(data) : data[i].tag = "0"}
        n == IF ends = {} THEN Len(data) ELSE CHOOSE i \in ends : \A j \in ends : i <= j
        wellFormed ==
            /\ n >= 2
            /\ n % 2 = 0
            /\ data[1].tag = "{"
            /\ data[n].tag = "0"
            /\ \A i \in 2..(n - 1) : data[i].tag = (IF i % 2 = 0 THEN "(" ELSE "g")
        items == {i \in 2..(n - 1) : i % 2 = 0}
        ks == {data[i].val : i \in items}
        lastOf(key) == CHOOSE i \in items :
                          /\ data[i].val = key
                          /\ \A j \in items : data[j].val = key => j <= i
    IN  IF wellFormed
        THEN [ok |-> TRUE, dict |-> [key \in ks |-> data[lastOf(key) + 1].val]]
        ELSE [ok |-> FALSE, dict |-> EmptyDict]

NoFile == [exists |-> FALSE, data |-> <<>>]
FileOf(data) == [exists |-> TRUE, data |-> data]

\* the proper prefixes of data: what a write interrupted after open(.., 'wb') leaves
TornWrites(data) == {SubSeq(data, 1, i) : i \in 0..(Len(data) - 1)}

\* loadSDict whose except branch returns {} without writing the file
loadSDictWithoutRewrite(f) ==
    LET r == loads(f.data)
    IN  IF f.exists /\ r.ok
        THEN [sdict |-> r.dict, file |-> f, failed |-> FALSE]
        ELSE [sdict |-> EmptyDict, file |-> f, failed |-> TRUE]

\* loadSDict: the loaded store and the file it leaves
loadSDict(f) ==
    LET r == loads(f.data)
    IN  IF f.exists /\ r.ok
        THEN [sdict |-> r.dict, file |-> f, failed |-> FALSE]
        ELSE [sdict |-> EmptyDict, file |-> FileOf(dumps(EmptyDict)), failed |-> TRUE]

\* dumpSDict: the file after the whole store is written over it
dumpSDict(s) == FileOf(dumps(s))

(***************************************************************************)
(* The recurrence.  A call returns a record: ret is the value returned,    *)
(* sdict the store when it returns, hit whether the first lookup found the *)
(* key, ncalls the number of SNonCongestionProbability invocations made,   *)
(* and writes the assignments self.sdict[key] = v it performed, in order.  *)
(***************************************************************************)
Assign(key, v) == [key |-> key, val |-> v]

\* comb(n, t) * (1/m)**t * ((m-1)/m)**(n-t)
Binomial(m, n, t) ==
    FMul(FMul(Float(comb(n, t), 1), FPow(Float(1, m), t)), FPow(Float(m - 1, m), n - t))

RECURSIVE SNonCongestionProbability(_, _, _, _)
RECURSIVE SumTerms(_, _, _, _, _, _)

\* what a call that made the recursive call sub, with the arguments args, and then
\* the calls of rest reports; made is the set of the arguments of the recursive
\* calls made, at any depth, and depth the deepest nesting of recursive calls
Then(args, sub, rest) ==
    [ret |-> rest.ret,
     sdict |-> rest.sdict,
     ncalls |-> sub.ncalls + rest.ncalls,
     writes |-> sub.writes \o rest.writes,
     made |-> {args} \cup sub.made \cup rest.made,
     depth |-> IF 1 + sub.depth > rest.depth THEN 1 + sub.depth ELSE rest.depth]

\* the term t, whose recursive call returned sub, added to acc, and the terms
\* after it computed against the store sub left
AddTerm(m, n, k, t, acc, sub) ==
    Then(<<m - 1, n - t, k>>, sub,
         SumTerms(sub.sdict, m, n, k, t + 1,
                  FAdd(acc, FMul(sub.ret, Binomial(m, n, t)))))

\* SumTerms with range(0, k) for range(0, k+1): the term t = k is left out
SumTermsShortRange(s, m, n, k, t, acc) ==
    IF t >= k
    THEN [ret |-> acc, sdict |-> s, ncalls |-> 0, writes |-> <<>>, made |-> {}, depth |-> 0]
    ELSE AddTerm(m, n, k, t, acc, SNonCongestionProbability(s, m - 1, n - t, k))

\* SumTerms with range(0, k+2) for range(0, k+1): one term more, t = k + 1
SumTermsLongRange(s, m, n, k, t, acc) ==
    IF t > k + 1
    THEN [ret |-> acc, sdict |-> s, ncalls |-> 0, writes |-> <<>>, made |-> {}, depth |-> 0]
    ELSE AddTerm(m, n, k, t, acc, SNonCongestionProbability(s, m - 1, n - t, k))

\* sum(map(function, range(0, k+1))): the terms t..k added to acc, each term's
\* recursive call SNonCongestionProbability(m-1, n-t, k) made against the store
\* the call before it left
SumTerms(s, m, n, k, t, acc) ==
    IF t > k
    THEN [ret |-> acc, sdict |-> s, ncalls |-> 0, writes |-> <<>>, made |-> {}, depth |-> 0]
    ELSE AddTerm(m, n, k, t, acc, SNonCongestionProbability(s, m - 1, n - t, k))

\* Memoize without the insertion of lines 53-54
MemoizeNothing(key, r) ==
    [ret |-> r.ret, sdict |-> r.sdict, hit |-> FALSE, ncalls |-> 1 + r.ncalls,
     writes |-> r.writes, made |-> r.made, depth |-> r.depth]

\* lines 53-56: the sum r is inserted under key, if key is absent, and returned
Memoize(key, r) ==
    [ret |-> r.ret,
     sdict |-> IF key \notin DOMAIN r.sdict THEN Put(r.sdict, key, r.ret) ELSE r.sdict,
     hit |-> FALSE,
     ncalls |-> 1 + r.ncalls,
     writes |-> IF key \notin DOMAIN r.sdict THEN r.writes \o <<Assign(key, r.ret)>>
                ELSE r.writes,
     made |-> r.made,
     depth |-> r.depth]

\* SNonCongestionProbability with the test n <= k made before m*k < n
SNonCongestionBaseCasesSwapped(s, m, n, k) ==
    IF <<m, n, k>> \in DOMAIN s
    THEN [ret |-> s[<<m, n, k>>], sdict |-> s, hit |-> TRUE, ncalls |-> 1, writes |-> <<>>,
          made |-> {}, depth |-> 0]
    ELSE IF n <= k
    THEN [ret |-> One, sdict |-> s, hit |-> FALSE, ncalls |-> 1, writes |-> <<>>,
          made |-> {}, depth |-> 0]
    ELSE IF m * k < n
    THEN [ret |-> Zero, sdict |-> s, hit |-> FALSE, ncalls |-> 1, writes |-> <<>>,
          made |-> {}, depth |-> 0]
    ELSE Memoize(<<m, n, k>>, SumTerms(s, m, n, k, 0, Zero))

SNonCongestionProbability(s, m, n, k) ==
    IF <<m, n, k>> \in DOMAIN s
    THEN [ret |-> s[<<m, n, k>>], sdict |-> s, hit |-> TRUE, ncalls |-> 1, writes |-> <<>>,
          made |-> {}, depth |-> 0]
    ELSE IF m * k < n
    THEN [ret |-> Zero, sdict |-> s, hit |-> FALSE, ncalls |-> 1, writes |-> <<>>,
          made |-> {}, depth |-> 0]
    ELSE IF n <= k
    THEN [ret |-> One, sdict |-> s, hit |-> FALSE, ncalls |-> 1, writes |-> <<>>,
          made |-> {}, depth |-> 0]
    ELSE Memoize(<<m, n, k>>, SumTerms(s, m, n, k, 0, Zero))

\* a call of SCongestionProbability also reports the file it leaves and the
\* number of times it ran dumpSDict

\* StoreAndDump storing the value returned, 1.0 - sncp, on line 64
StoreComplementAndDump(key, sncp) ==
    [ret |-> FSub(One, sncp.ret),
     sdict |-> Put(sncp.sdict, key, FSub(One, sncp.ret)),
     file |-> dumpSDict(Put(sncp.sdict, key, FSub(One, sncp.ret))),
     hit |-> FALSE,
     ncalls |-> sncp.ncalls,
     writes |-> sncp.writes \o <<Assign(key, FSub(One, sncp.ret))>>,
     dumps |-> 1,
     made |-> sncp.made,
     depth |-> sncp.depth]

\* StoreAndDump with lines 64 and 65 exchanged: the dump before the store
DumpAndStore(key, sncp) ==
    [ret |-> FSub(One, sncp.ret),
     sdict |-> Put(sncp.sdict, key, sncp.ret),
     file |-> dumpSDict(sncp.sdict),
     hit |-> FALSE,
     ncalls |-> sncp.ncalls,
     writes |-> sncp.writes \o <<Assign(key, sncp.ret)>>,
     dumps |-> 1,
     made |-> sncp.made,
     depth |-> sncp.depth]

\* StoreAndDump without the store of line 64
DumpOnly(key, sncp) ==
    [ret |-> FSub(One, sncp.ret),
     sdict |-> sncp.sdict,
     file |-> dumpSDict(sncp.sdict),
     hit |-> FALSE,
     ncalls |-> sncp.ncalls,
     writes |-> sncp.writes,
     dumps |-> 1,
     made |-> sncp.made,
     depth |-> sncp.depth]

\* lines 64-66: the value sncp returned is stored under key, the whole store is
\* dumped over the file, and the complement is returned
StoreAndDump(key, sncp) ==
    [ret |-> FSub(One, sncp.ret),
     sdict |-> Put(sncp.sdict, key, sncp.ret),
     file |-> dumpSDict(Put(sncp.sdict, key, sncp.ret)),
     hit |-> FALSE,
     ncalls |-> sncp.ncalls,
     writes |-> sncp.writes \o <<Assign(key, sncp.ret)>>,
     dumps |-> 1,
     made |-> sncp.made,
     depth |-> sncp.depth]

\* SCongestionProbability returning the stored value itself on a hit
SCongestionHitNoComplement(s, f, m, n, k) ==
    IF <<m, n, k>> \in DOMAIN s
    THEN [ret |-> s[<<m, n, k>>], sdict |-> s, file |-> f, hit |-> TRUE,
          ncalls |-> 0, writes |-> <<>>, dumps |-> 0, made |-> {}, depth |-> 0]
    ELSE StoreAndDump(<<m, n, k>>, SNonCongestionProbability(s, m, n, k))

SCongestionProbability(s, f, m, n, k) ==
    IF <<m, n, k>> \in DOMAIN s
    THEN [ret |-> FSub(One, s[<<m, n, k>>]), sdict |-> s, file |-> f, hit |-> TRUE,
          ncalls |-> 0, writes |-> <<>>, dumps |-> 0, made |-> {}, depth |-> 0]
    ELSE StoreAndDump(<<m, n, k>>, SNonCongestionProbability(s, m, n, k))

\* FileUntouched flushing the store after an insertion, as StoreAndDump does
FlushedAfterInsert(r, f) ==
    [ret |-> r.ret, sdict |-> r.sdict,
     file |-> IF r.writes = <<>> THEN f ELSE dumpSDict(r.sdict),
     hit |-> r.hit, ncalls |-> r.ncalls, writes |-> r.writes, dumps |-> 0,
     made |-> r.made, depth |-> r.depth]

\* a call of SNonCongestionProbability that reported r never opens the file f
FileUntouched(r, f) ==
    [ret |-> r.ret, sdict |-> r.sdict, file |-> f, hit |-> r.hit, ncalls |-> r.ncalls,
     writes |-> r.writes, dumps |-> 0, made |-> r.made, depth |-> r.depth]

(***************************************************************************)
(* The engine's life: construction, the two accessors, and crashes.        *)
(***************************************************************************)
NoKey == <<0, 0, 0>>

\* what the last step did: the call made, its key, and what the call reported;
\* dirty says whether the store held entries the file did not when it began, and
\* twice whether the step before was the same call with the same key
Event(op, key, r, dirty) ==
    [op |-> op, key |-> key, ret |-> r.ret, hit |-> r.hit, ncalls |-> r.ncalls,
     writes |-> r.writes, dumps |-> r.dumps, made |-> r.made, depth |-> r.depth,
     dirty |-> dirty,
     twice |-> (last.op = op /\ last.key = key)]

Quiet == [ret |-> Zero, hit |-> FALSE, ncalls |-> 0, writes |-> <<>>, dumps |-> 0,
          made |-> {}, depth |-> 0]

\* the keys the store holds that loading the file would not give back
Dirty(s, f) == DOMAIN s \ DOMAIN loadSDict(f).sdict

NoPaths == [op |-> "none", start |-> "A", end |-> "A", k |-> 0, paths |-> <<>>, cut |-> FALSE]

EmptyGraph == [nodes |-> {}, edges |-> {}]

\* no call made yet
NoCall == [op |-> "none"]

\* the threads of a host that shares one ProbabiliyCalculator
Threads == {1, 2}

\* a thread that has not called yet
Idle == [pc |-> "idle", key |-> NoKey, missed |-> FALSE, sncp |-> Zero, data |-> <<>>,
         ret |-> Zero]

\* the graph without nodes, edges or capacities
EmptyNet == [nodes |-> {}, edges |-> {}, capacity |-> <<>>]

\* no traffic generator process yet
NoGenerator ==
    [pc |-> "start", _lbc_ip |-> FALSE, queue |-> <<>>, thread_handlers |-> <<>>,
     created |-> <<>>]

Init ==
    /\ tg = NoGenerator
    /\ exact = NoCall
    /\ net = EmptyNet
    /\ flow = NoCall
    /\ sampled = NoCall
    /\ threads = [t \in Threads |-> Idle]
    /\ interleaved = FALSE
    /\ dag = EmptyGraph
    /\ found = NoPaths
    /\ up = FALSE
    /\ sdict = EmptyDict
    /\ file = NoFile
    /\ last = [op |-> "none", key |-> NoKey, ret |-> Zero, hit |-> FALSE, ncalls |-> 0,
               writes |-> <<>>, dumps |-> 0, made |-> {}, depth |-> 0, dirty |-> FALSE,
               twice |-> FALSE]
    /\ calls = 0
    /\ lost = {}

\* __init__: self.sdict = self.loadSDict()
Construct ==
    /\ ~up
    /\ LET l == loadSDict(file)
       IN  /\ sdict' = l.sdict
           /\ file' = l.file
           /\ last' = Event("init", NoKey, [Quiet EXCEPT !.hit = ~l.failed], FALSE)
    /\ up' = TRUE
    /\ UNCHANGED <<calls, lost>>
    /\ UNCHANGED notStoreVars

\* the call op on key returns, having reported r: the store and the file are
\* as the call left them
Returns(op, key, r) ==
    /\ sdict' = r.sdict
    /\ file' = r.file
    /\ last' = Event(op, key, r, Dirty(sdict, file) # {})
    /\ calls' = calls + 1

\* a caller's SNonCongestionProbability(m, n, k)
CallNonCongestion(m, n, k) ==
    /\ up
    /\ Returns("NonCong", <<m, n, k>>,
               FileUntouched(SNonCongestionProbability(sdict, m, n, k), file))
    /\ UNCHANGED <<up, lost>>
    /\ UNCHANGED notStoreVars

\* a caller's SCongestionProbability(m, n, k)
CallCongestion(m, n, k) ==
    /\ up
    /\ Returns("Cong", <<m, n, k>>, SCongestionProbability(sdict, file, m, n, k))
    /\ UNCHANGED <<up, lost>>
    /\ UNCHANGED notStoreVars

\* the process dies between two calls: the in-memory store is gone
Crash ==
    /\ up
    /\ up' = FALSE
    /\ sdict' = EmptyDict
    /\ lost' = lost \cup Dirty(sdict, file)
    /\ last' = Event("crash", NoKey, Quiet, Dirty(sdict, file) # {})
    /\ UNCHANGED <<file, calls>>
    /\ UNCHANGED notStoreVars

\* the call of SCongestionProbability that reported r dies inside its dumpSDict:
\* the file is a proper prefix of the dump and the store is gone
DiesInDump(key, r) ==
    /\ \E data \in TornWrites(r.file.data) : file' = FileOf(data)
    /\ lost' = lost \cup DOMAIN r.sdict
    /\ last' = Event("crashInDump", key, [Quiet EXCEPT !.writes = r.writes],
                     Dirty(sdict, file) # {})

\* the process dies inside the dumpSDict of SCongestionProbability(m, n, k), after
\* open(.., 'wb') truncated the file and before the whole dump is written
CrashInDump(m, n, k) ==
    /\ up
    /\ calls < MaxCalls
    /\ <<m, n, k>> \notin DOMAIN sdict
    /\ DiesInDump(<<m, n, k>>, SCongestionProbability(sdict, file, m, n, k))
    /\ up' = FALSE
    /\ sdict' = EmptyDict
    /\ calls' = calls + 1
    /\ UNCHANGED notStoreVars

\* the process dies inside loadSDict's except branch, while writing the empty store
CrashInLoad ==
    /\ ~up
    /\ loadSDict(file).failed
    /\ \E data \in TornWrites(dumps(EmptyDict)) : file' = FileOf(data)
    /\ last' = Event("crashInLoad", NoKey, Quiet, FALSE)
    /\ UNCHANGED <<up, sdict, calls, lost>>
    /\ UNCHANGED notStoreVars

(***************************************************************************)
(* Spec: any interleaving of calls, crashes and restarts.  The callers ask *)
(* about the keys of Asked, one of each kind: both base cases at once      *)
(* (m = 0), each base case alone, and recurrences of depth one and two     *)
(* with thresholds 1 and 2.                                                *)
(***************************************************************************)
Asked == {<<0, 1, 1>>, <<1, 2, 1>>, <<2, 1, 1>>, <<2, 2, 1>>, <<3, 2, 1>>,
          <<3, 3, 1>>, <<3, 4, 2>>}

NonCongestionProbability(m, n, k) == calls < MaxCalls /\ CallNonCongestion(m, n, k)

CongestionProbability(m, n, k) == calls < MaxCalls /\ CallCongestion(m, n, k)

Next ==
    \/ Construct
    \/ \E key \in Asked : NonCongestionProbability(key[1], key[2], key[3])
    \/ \E key \in Asked : CongestionProbability(key[1], key[2], key[3])
    \/ Crash
    \/ \E key \in Asked : CrashInDump(key[1], key[2], key[3])
    \/ CrashInLoad

Spec == Init /\ [][Next]_vars

(***************************************************************************)
(* SpecKeys: one engine, never crashing, asked about every key of Keys: a  *)
(* first call, a second call, and the second call's key once more.         *)
(***************************************************************************)
First(m, n, k) ==
    /\ calls = 0
    /\ \/ CallNonCongestion(m, n, k)
       \/ CallCongestion(m, n, k)

Second(m, n, k) ==
    /\ calls = 1
    /\ \/ CallNonCongestion(m, n, k)
       \/ CallCongestion(m, n, k)

Again ==
    /\ calls = 2
    /\ \/ CallNonCongestion(last.key[1], last.key[2], last.key[3])
       \/ CallCongestion(last.key[1], last.key[2], last.key[3])

NextKeys ==
    \/ Construct
    \/ \E key \in Keys : First(key[1], key[2], key[3])
    \/ \E key \in Keys : Second(key[1], key[2], key[3])
    \/ Again

SpecKeys == Init /\ [][NextKeys]_vars

(***************************************************************************)
(* Claims about the memoised recurrence and its store.                     *)
(***************************************************************************)
IsCall(e) == e.op \in {"NonCong", "Cong"}

\* the store after the assignments ws are made on s, in order
RECURSIVE StoreAfter(_, _)
StoreAfter(s, ws) ==
    IF ws = <<>> THEN s
    ELSE StoreAfter(Put(s, Head(ws).key, Head(ws).val), Tail(ws))

\* no assignment of ws, made in order on s, gives a present key another value
NoOverwrite(s, ws) ==
    \A i \in 1..Len(ws) :
        LET before == StoreAfter(s, SubSeq(ws, 1, i - 1))
        IN  ws[i].key \in DOMAIN before => before[ws[i].key] = ws[i].val

\* what an engine with an empty store returns for the call
FreshReturn(op, key) ==
    IF op = "NonCong"
    THEN SNonCongestionProbability(EmptyDict, key[1], key[2], key[3]).ret
    ELSE SCongestionProbability(EmptyDict, NoFile, key[1], key[2], key[3]).ret

\* C1: along any sequence of NonCongestionProbability and CongestionProbability
\* calls on one engine, a key present in the store keeps its value: every
\* assignment a call makes, in the order it makes them, either adds an absent key
\* or rewrites the value the key already has, and the store the call leaves holds
\* every earlier entry unchanged.
C1_StoredValueNeverChanges ==
    [][(up /\ IsCall(last'))
        => /\ NoOverwrite(sdict, last'.writes)
           /\ sdict' = StoreAfter(sdict, last'.writes)
           /\ \A key \in DOMAIN sdict : key \in DOMAIN sdict' /\ sdict'[key] = sdict[key]]_vars

\* a CongestionProbability miss on a recursive key has assigned the key twice
\* (line 54, then line 64) on top of a store that already held another entry
C1_Witness ==
    /\ last.op = "Cong"
    /\ Len(last.writes) >= 2
    /\ last.writes[Len(last.writes)].key = last.writes[Len(last.writes) - 1].key
    /\ last.writes[Len(last.writes)].val \notin {Zero, One, Float(1, 2)}
    /\ Cardinality(DOMAIN sdict) > Cardinality({last.writes[i].key : i \in 1..Len(last.writes)})

\* C2: whatever calls, crashes and restarts came before, a call returns the value
\* an engine with an empty store returns for the same call.
C2_CrashNeverChangesAValue ==
    IsCall(last) => last.ret = FreshReturn(last.op, last.key)

\* an entry a crash discarded has been recomputed by the recurrence after a restart
C2_Witness ==
    /\ up
    /\ IsCall(last)
    /\ last.key \in lost
    /\ ~last.hit
    /\ last.ncalls > 1
    /\ last.ret \notin {Zero, One}

\* C3: when CongestionProbability(m,n,k) returns after missing the store, (m,n,k)
\* is in the in-memory store and the durable file is a whole dump that loads to
\* exactly the in-memory store, without the load taking its error path.
C3_MissFlushesWholeStore ==
    (last.op = "Cong" /\ ~last.hit)
        => /\ last.key \in DOMAIN sdict
           /\ sdict[last.key] = FSub(One, last.ret)
           /\ last.dumps = 1
           /\ file.exists
           /\ loads(file.data).ok
           /\ loads(file.data).dict = sdict
           /\ ~loadSDict(file).failed
           /\ loadSDict(file).sdict = sdict
           /\ loadSDict(file).file = file

\* a miss whose flush also wrote entries that were in memory only before it
C3_Witness ==
    /\ last.op = "Cong"
    /\ ~last.hit
    /\ last.dirty
    /\ Cardinality(DOMAIN sdict) >= 3
    /\ loadSDict(file).sdict = sdict

\* C4: a NonCongestionProbability call leaves the file as it was and only adds
\* entries to the in-memory store; the file changes only in a construction that
\* finds it absent or unreadable and in a CongestionProbability call that missed.
C4_OnlyCongestionMissWritesFile ==
    [][/\ last'.op = "NonCong"
            => /\ file' = file
               /\ last'.dumps = 0
               /\ \A key \in DOMAIN sdict : key \in DOMAIN sdict' /\ sdict'[key] = sdict[key]
       /\ file' # file
            => \/ /\ last'.op \in {"init", "crashInLoad"}
                  /\ ~up
                  /\ loadSDict(file).failed
               \/ /\ last'.op \in {"Cong", "crashInDump"}
                  /\ up
                  /\ last'.key \notin DOMAIN sdict]_vars

\* a NonCongestionProbability miss has left entries in memory that the file lacks
C4_Witness ==
    /\ last.op = "NonCong"
    /\ ~last.hit
    /\ last.writes # <<>>
    /\ file.exists
    /\ last.key \in Dirty(sdict, file)

\* C5: CongestionProbability(m,n,k) returns 1 minus what NonCongestionProbability
\* returns for (m,n,k), asked on the store as it was before the call or as the
\* call leaves it, so the two add up to 1.
C5_Complement ==
    [][last'.op = "Cong"
        => LET key == last'.key
               before == SNonCongestionProbability(sdict, key[1], key[2], key[3]).ret
               after == SNonCongestionProbability(sdict', key[1], key[2], key[3]).ret
           IN  /\ last'.ret = FSub(One, before)
               /\ last'.ret = FSub(One, after)
               /\ FAdd(last'.ret, before) = One
               /\ FAdd(last'.ret, after) = One]_vars

\* a complement taken from a stored value that is neither 0 nor 1
C5_Witness ==
    /\ last.op = "Cong"
    /\ last.hit
    /\ last.ret \notin {Zero, One, Float(1, 2)}

\* C6 as stated: NonCongestionProbability returns 0.0 whenever m*k < n, and 1.0
\* whenever n <= k.
C6_Original ==
    last.op = "NonCong"
        => /\ last.key[1] * last.key[3] < last.key[2] => last.ret = Zero
           /\ last.key[2] <= last.key[3] => last.ret = One

\* C6 amended: NonCongestionProbability returns 0.0 whenever m*k < n, also when
\* n <= k (m = 0 with 1 <= n <= k), and 1.0 whenever n <= k and m*k >= n.
C6_BaseCases ==
    last.op = "NonCong"
        => /\ last.key[1] * last.key[3] < last.key[2] => last.ret = Zero
           /\ (last.key[2] <= last.key[3] /\ last.key[1] * last.key[3] >= last.key[2])
                => last.ret = One

\* both tests hold of the key, here answered from the store
C6_Witness ==
    /\ last.op = "NonCong"
    /\ last.key[1] * last.key[3] < last.key[2]
    /\ last.key[2] <= last.key[3]
    /\ last.hit
    /\ last.ret = Zero

\* the number of ways to give each of n units one of m paths with no path
\* getting more than k units, over the number of ways to give them at all
Reference ==
    [key \in Keys |->
        LET m == key[1]
            n == key[2]
            k == key[3]
            all == [1..n -> 1..m]
            good == {f \in all : \A p \in 1..m : Cardinality({u \in 1..n : f[u] = p}) <= k}
        IN  IF m = 0 THEN Zero ELSE Float(Cardinality(good), Cardinality(all))]

\* C7: for m >= 1, NonCongestionProbability(m,n,k) is the fraction of the m^n
\* assignments of n units to m paths in which no path gets more than k units.
C7_RecurrenceIsTheProbability ==
    (last.op = "NonCong" /\ last.key[1] >= 1) => last.ret = Reference[last.key]

\* a value computed by a recurrence two levels deep, with more than two terms
C7_Witness ==
    /\ last.op = "NonCong"
    /\ last.key = <<3, 4, 2>>
    /\ ~last.hit
    /\ last.ncalls = 10
    /\ last.ret = Float(54, 81)

\* C8: the second of two CongestionProbability(m,n,k) calls in a row returns
\* what the first returned and is a pure hit: no call of the recurrence, no
\* change of the in-memory store, no dump and no change of the file.
C8_SecondCallIsAHit ==
    [][(last.op = "Cong" /\ last'.op = "Cong" /\ last'.key = last.key)
        => /\ last'.ret = last.ret
           /\ last'.hit
           /\ last'.ncalls = 0
           /\ last'.writes = <<>>
           /\ last'.dumps = 0
           /\ sdict' = sdict
           /\ file' = file]_vars

\* the second call in a row on a base-case key, and on a recursive key
C8_Witness ==
    /\ last.op = "Cong"
    /\ last.twice
    /\ last.hit
    /\ last.key[1] * last.key[3] < last.key[2]

\* C9 as stated: a NonCongestionProbability call that misses the store has
\* inserted what it returns under its key when it returns.
C9_Original ==
    (last.op = "NonCong" /\ ~last.hit)
        => (last.key \in DOMAIN sdict /\ sdict[last.key] = last.ret)

\* C9 amended: a NonCongestionProbability call that misses the store and takes
\* the recursive case (m*k >= n and n > k) has inserted what it returns under its
\* key when it returns, so the same call made next is a hit; a call answered by a
\* base case inserts nothing.
C9_MissOnRecursiveKeyInserts ==
    (last.op = "NonCong" /\ ~last.hit)
        => LET m == last.key[1]
               n == last.key[2]
               k == last.key[3]
               next == SNonCongestionProbability(sdict, m, n, k)
           IN  IF m * k >= n /\ n > k
               THEN /\ last.key \in DOMAIN sdict
                    /\ sdict[last.key] = last.ret
                    /\ next.hit
                    /\ next.ret = last.ret
                    /\ next.sdict = sdict
               ELSE last.writes = <<>>

\* a miss on a recursive key
C9_Witness ==
    /\ last.op = "NonCong"
    /\ ~last.hit
    /\ last.key[1] * last.key[3] >= last.key[2]
    /\ last.key[2] > last.key[3]
    /\ last.key \in DOMAIN sdict

(***************************************************************************)
(* getAllPathsLimDAG.  A graph is its node set and its edge set; dag[x] is *)
(* iterated in the order of NodeOrder.  Paths are sequences of nodes.      *)
(***************************************************************************)
NodeOrder == <<"A", "B", "C", "D">>

Nodes == {NodeOrder[i] : i \in 1..Len(NodeOrder)}

Range(seq) == {seq[i] : i \in 1..Len(seq)}

\* the elements of seq that satisfy Keep, in order
RECURSIVE SelectInOrder(_, _)
SelectInOrder(seq, keep) ==
    IF seq = <<>> THEN <<>>
    ELSE (IF Head(seq) \in keep THEN <<Head(seq)>> ELSE <<>>) \o SelectInOrder(Tail(seq), keep)

\* dag[x]: the successors of x, in iteration order
Successors(g, x) == SelectInOrder(NodeOrder, {y \in Nodes : <<x, y>> \in g.edges})

\* a call returns the list of paths, and cut: whether some invocation was entered
\* with more nodes accumulated in path than the graph universe has, which is where
\* the model stops following the recursion
RECURSIVE getAllPathsLimDAG(_, _, _, _, _)
RECURSIVE ExtendPaths(_, _, _, _, _)

\* ExtendPaths without the test "node not in path"
ExtendPathsNoLoopTest(g, succs, end, k, path) ==
    IF succs = <<>>
    THEN [paths |-> <<>>, cut |-> FALSE]
    ELSE LET node == Head(succs)
             newpaths ==
                 IF k = 0 \/ Len(path) < k + 1
                 THEN getAllPathsLimDAG(g, node, end, k, path)
                 ELSE [paths |-> <<>>, cut |-> FALSE]
             rest == ExtendPaths(g, Tail(succs), end, k, path)
         IN  [paths |-> newpaths.paths \o rest.paths, cut |-> newpaths.cut \/ rest.cut]

\* ExtendPaths with the test len(path) < k+2 for len(path) < k+1
ExtendPathsOneHopMore(g, succs, end, k, path) ==
    IF succs = <<>>
    THEN [paths |-> <<>>, cut |-> FALSE]
    ELSE LET node == Head(succs)
             newpaths ==
                 IF node \notin Range(path) /\ (k = 0 \/ Len(path) < k + 2)
                 THEN getAllPathsLimDAG(g, node, end, k, path)
                 ELSE [paths |-> <<>>, cut |-> FALSE]
             rest == ExtendPaths(g, Tail(succs), end, k, path)
         IN  [paths |-> newpaths.paths \o rest.paths, cut |-> newpaths.cut \/ rest.cut]

\* the loop "for node in dag[start]" over the successors still to visit
ExtendPaths(g, succs, end, k, path) ==
    IF succs = <<>>
    THEN [paths |-> <<>>, cut |-> FALSE]
    ELSE LET node == Head(succs)
             newpaths ==
                 IF node \notin Range(path)
                 THEN IF k = 0
                      THEN getAllPathsLimDAG(g, node, end, k, path)
                      ELSE IF Len(path) < k + 1
                      THEN getAllPathsLimDAG(g, node, end, k, path)
                      ELSE [paths |-> <<>>, cut |-> FALSE]
                 ELSE [paths |-> <<>>, cut |-> FALSE]
             rest == ExtendPaths(g, Tail(succs), end, k, path)
         IN  [paths |-> newpaths.paths \o rest.paths, cut |-> newpaths.cut \/ rest.cut]

getAllPathsLimDAG(g, start, end, k, path) ==
    IF Len(path) > Cardinality(Nodes)
    THEN [paths |-> <<>>, cut |-> TRUE]
    ELSE LET acc == path \o <<start>>
         IN  IF start = end
             THEN [paths |-> <<acc>>, cut |-> FALSE]
             ELSE IF start \notin g.nodes
             THEN [paths |-> <<>>, cut |-> FALSE]
             ELSE ExtendPaths(g, Successors(g, start), end, k, acc)

\* the caller adds an edge, and with it its end nodes, to the graph it will ask about
AddEdge(x, y) ==
    /\ found.op = "none"
    /\ <<x, y>> \notin dag.edges
    /\ Cardinality(dag.edges) < MaxEdges
    /\ dag' = [nodes |-> dag.nodes \cup {x, y}, edges |-> dag.edges \cup {<<x, y>>}]
    /\ found' = NoPaths
    /\ UNCHANGED notGraphVars

\* a caller's getAllPathsLimDAG(dag, start, end, k) on the graph it built; the
\* function keeps nothing between calls (its default path=[] is never mutated:
\* line 231 builds a new list), so one call a run shows every call
GetAllPaths(start, end, k) ==
    /\ found.op = "none"
    /\ LET r == getAllPathsLimDAG(dag, start, end, k, <<>>)
       IN  found' = [op |-> "paths", start |-> start, end |-> end, k |-> k,
                     paths |-> r.paths, cut |-> r.cut]
    /\ UNCHANGED dag
    /\ UNCHANGED notGraphVars

NextPaths ==
    \/ \E x \in Nodes, y \in Nodes : AddEdge(x, y)
    \/ \E start \in Nodes, end \in Nodes, k \in 0..MaxHops : GetAllPaths(start, end, k)

SpecPaths == Init /\ [][NextPaths]_vars

(***************************************************************************)
(* Claims about the path enumeration.                                      *)
(***************************************************************************)
\* the sequences of distinct nodes
LoopFree ==
    {p \in UNION {[1..n -> Nodes] : n \in 1..Cardinality(Nodes)} :
        \A i \in 1..Len(p), j \in 1..Len(p) : p[i] = p[j] => i = j}

\* the loop-free directed paths of g from start to end
LoopFreePaths(g, start, end) ==
    {p \in LoopFree :
        /\ p[1] = start
        /\ p[Len(p)] = end
        /\ \A i \in 1..(Len(p) - 1) : <<p[i], p[i + 1]>> \in g.edges}

\* C10: on any directed graph, cycles and self-loops included, and any start and
\* end, getAllPathsLimDAG(dag, start, end, 0) returns without the recursion ever
\* holding more nodes than the graph has, and the list it returns holds each
\* loop-free directed path from start to end exactly once and nothing else.
C10_AllLoopFreePathsOnce ==
    (found.op = "paths" /\ found.k = 0)
        => /\ ~found.cut
           /\ \A i \in 1..Len(found.paths), j \in 1..Len(found.paths) :
                  found.paths[i] = found.paths[j] => i = j
           /\ Range(found.paths) = LoopFreePaths(dag, found.start, found.end)
           /\ found.start = found.end => found.paths = <<<<found.start>>>>

\* the diamond A->B, A->C, B->D, C->D asked from A to D
C10_Witness ==
    /\ found.op = "paths"
    /\ found.k = 0
    /\ dag.edges = {<<"A", "B">>, <<"A", "C">>, <<"B", "D">>, <<"C", "D">>}
    /\ found.start = "A"
    /\ found.end = "D"
    /\ found.paths = << <<"A", "B", "D">>, <<"A", "C", "D">> >>

\* C11: for a hop limit k > 0, getAllPathsLimDAG(dag, start, end, k) returns
\* exactly the loop-free directed paths from start to end that have at most k
\* edges: no returned path has more than k edges and every loop-free path with k
\* or fewer edges is returned.
C11_HopLimit ==
    (found.op = "paths" /\ found.k > 0)
        => /\ ~found.cut
           /\ \A i \in 1..Len(found.paths) : Len(found.paths[i]) - 1 <= found.k
           /\ Range(found.paths) =
                  {p \in LoopFreePaths(dag, found.start, found.end) : Len(p) - 1 <= found.k}

\* A->B, B->C, C->D, B->D asked from A to D with at most two hops: the path of
\* three edges exists and is left out
C11_Witness ==
    /\ found.op = "paths"
    /\ found.k = 2
    /\ dag.edges = {<<"A", "B">>, <<"B", "C">>, <<"C", "D">>, <<"B", "D">>}
    /\ found.start = "A"
    /\ found.end = "D"
    /\ <<"A", "B", "C", "D">> \in LoopFreePaths(dag, "A", "D")
    /\ found.paths = << <<"A", "B", "D">> >>

(***************************************************************************)
(* ExactCongestionProbability.  The caller's graph all_dag is an object:   *)
(* each edge refers to the cell of a heap that holds the edge's attribute  *)
(* dictionary {'capacity': .., 'mincap': ..}.  all_dag.copy() is the copy  *)
(* of networkx's DiGraph: a new graph whose edges own new attribute        *)
(* dictionaries.  Paths are sequences of nodes; flow indices start at 1.   *)
(***************************************************************************)
EdgeOrder == << <<"A", "B">>, <<"B", "C">> >>

CapEdges == Range(EdgeOrder)

EdgeIndex(e) == CHOOSE i \in 1..Len(EdgeOrder) : EdgeOrder[i] = e

\* the graph with capacity caps[i] on the i-th edge and the floor mincap on each
NewGraph(caps, mincap) ==
    [heap |-> [i \in 1..Len(EdgeOrder) |-> [capacity |-> caps[i], mincap |-> mincap]],
     cell |-> [e \in CapEdges |-> EdgeIndex(e)]]

\* the attributes of every edge of the graph g
Capacities(heap, g) == [e \in CapEdges |-> heap[g[e]]]

\* copy as dict.copy() would make it: the new graph shares the attribute dictionaries
copySharingAttributes(heap, g) == [heap |-> heap, cell |-> g]

\* all_dag.copy(): every edge of the new graph gets a new cell holding a copy of
\* the edge's attributes
copy(heap, g) ==
    [heap |-> heap \o [i \in 1..Len(EdgeOrder) |-> heap[g[EdgeOrder[i]]]],
     cell |-> [e \in CapEdges |-> Len(heap) + EdgeIndex(e)]]

\* zip(path[:-1], path[1:])
EdgesOf(path) == [i \in 1..(Len(path) - 1) |-> <<path[i], path[i + 1]>>]

\* it.product(*flow_paths): one path per flow, the last flow's choice varying fastest
Prepend(path, allocs) == [i \in 1..Len(allocs) |-> <<path>> \o allocs[i]]

RECURSIVE Cross(_, _)
Cross(paths, allocs) ==
    IF paths = <<>> THEN <<>>
    ELSE Prepend(Head(paths), allocs) \o Cross(Tail(paths), allocs)

RECURSIVE Product(_)
Product(flow_paths) ==
    IF flow_paths = <<>> THEN << <<>> >>
    ELSE Cross(Head(flow_paths), Product(Tail(flow_paths)))

\* lines 94-96: the flow's size is subtracted from the capacity in cell c
Subtract(heap, c, size) == [heap EXCEPT ![c].capacity = @ - size]

RECURSIVE WalkPath(_, _, _, _)

\* Checked with the test cap <= mincap for cap < mincap
CheckedAtOrBelow(heap, g, edges, size) ==
    IF heap[g[Head(edges)]].capacity <= heap[g[Head(edges)]].mincap
    THEN [heap |-> heap, congestion_found |-> TRUE]
    ELSE WalkPath(heap, g, Tail(edges), size)

\* lines 98-103: after the subtraction on the first of edges, the test
\* cap < mincap breaks the walk of the path
Checked(heap, g, edges, size) ==
    IF heap[g[Head(edges)]].capacity < heap[g[Head(edges)]].mincap
    THEN [heap |-> heap, congestion_found |-> TRUE]
    ELSE WalkPath(heap, g, Tail(edges), size)

\* WalkPath testing the capacity read on line 94, before the subtraction
WalkPathTestsBeforeSubtracting(heap, g, edges, size) ==
    IF edges = <<>>
    THEN [heap |-> heap, congestion_found |-> FALSE]
    ELSE IF heap[g[Head(edges)]].capacity < heap[g[Head(edges)]].mincap
    THEN [heap |-> Subtract(heap, g[Head(edges)], size), congestion_found |-> TRUE]
    ELSE WalkPath(Subtract(heap, g[Head(edges)], size), g, Tail(edges), size)

\* the loop of line 93 over the edges of one flow's path
WalkPath(heap, g, edges, size) ==
    IF edges = <<>>
    THEN [heap |-> heap, congestion_found |-> FALSE]
    ELSE Checked(Subtract(heap, g[Head(edges)], size), g, edges, size)

RECURSIVE WalkAlloc(_, _, _, _, _)

\* lines 105-107: a congested path counts the combination and breaks the loop
\* over its flows
AfterPath(walked, g, alloc, flow_sizes, index) ==
    IF walked.congestion_found
    THEN [heap |-> walked.heap, congested |-> TRUE]
    ELSE WalkAlloc(walked.heap, g, alloc, flow_sizes, index + 1)

\* the loop of line 88 over the flows of one combination, from flow index on
WalkAlloc(heap, g, alloc, flow_sizes, index) ==
    IF index > Len(alloc)
    THEN [heap |-> heap, congested |-> FALSE]
    ELSE AfterPath(WalkPath(heap, g, EdgesOf(alloc[index]), flow_sizes[index]),
                   g, alloc, flow_sizes, index)

RECURSIVE Enumerate(_, _, _, _, _, _, _)

\* the combination Head(allocs) was walked on the working copy: it is counted and
\* the loop goes on.  trace records, for each combination, the attributes the
\* working copy had when its walk began and whether it was counted congested
Counted(walked, working, g, allocs, flow_sizes, total_samples, congestion_samples, trace) ==
    Enumerate(walked.heap, g, Tail(allocs), flow_sizes,
              total_samples + 1,
              congestion_samples + (IF walked.congested THEN 1 ELSE 0),
              Append(trace, [alloc |-> Head(allocs),
                             start |-> Capacities(working.heap, working.cell),
                             congested |-> walked.congested]))

\* lines 85-107 for the combination Head(allocs), on the copy working
Evaluate(working, g, allocs, flow_sizes, total_samples, congestion_samples, trace) ==
    Counted(WalkAlloc(working.heap, working.cell, Head(allocs), flow_sizes, 1),
            working, g, allocs, flow_sizes, total_samples, congestion_samples, trace)

\* the loop of line 80 over the combinations still to evaluate
Enumerate(heap, g, allocs, flow_sizes, total_samples, congestion_samples, trace) ==
    IF allocs = <<>>
    THEN [heap |-> heap, total_samples |-> total_samples,
          congestion_samples |-> congestion_samples, trace |-> trace]
    ELSE Evaluate(copy(heap, g), g, allocs, flow_sizes,
                  total_samples, congestion_samples, trace)

\* line 109: congestion_samples/float(total_samples)
Ratio(done) ==
    [raised |-> IF done.total_samples = 0 THEN "ZeroDivisionError" ELSE "",
     ret |-> IF done.total_samples = 0 THEN Zero
             ELSE Float(done.congestion_samples, done.total_samples),
     heap |-> done.heap,
     trace |-> done.trace]

ExactCongestionProbability(heap, all_dag, flow_paths, flow_sizes) ==
    Ratio(Enumerate(heap, all_dag, Product(flow_paths), flow_sizes, 0, 0, <<>>))

\* the path lists a flow may come with: the two single-edge paths, the path over
\* both edges, and that path with a path that shares an edge with it
PathLists ==
    { << <<"A", "B">>, <<"B", "C">> >>,
      << <<"A", "B", "C">> >>,
      << <<"A", "B", "C">>, <<"A", "B">> >> }

\* the call on the graph G returned r
ExactReturned(G, flow_paths, flow_sizes, r) ==
    exact' = [op |-> "exact",
              before |-> Capacities(G.heap, G.cell),
              flow_paths |-> flow_paths,
              flow_sizes |-> flow_sizes,
              raised |-> r.raised,
              ret |-> r.ret,
              after |-> Capacities(r.heap, G.cell),
              trace |-> r.trace]

\* a caller's ExactCongestionProbability(all_dag, flow_paths, flow_sizes) on the
\* graph G it owns
ExactOn(G, flow_paths, flow_sizes) ==
    ExactReturned(G, flow_paths, flow_sizes,
                  ExactCongestionProbability(G.heap, G.cell, flow_paths, flow_sizes))

\* the method keeps nothing between calls, so one call a run shows every call
ExactCongestion(caps, mincap, flow_paths, flow_sizes) ==
    /\ exact.op = "none"
    /\ ExactOn(NewGraph(caps, mincap), flow_paths, flow_sizes)
    /\ UNCHANGED notExactVars

NextExact ==
    \E caps \in [1..Len(EdgeOrder) -> 0..MaxExactCap], mincap \in {-1, 0}, f \in 1..MaxFlows :
        \E flow_paths \in [1..f -> PathLists], flow_sizes \in [1..f -> -1..MaxSize] :
            ExactCongestion(caps, mincap, flow_paths, flow_sizes)

SpecExact == Init /\ [][NextExact]_vars

(***************************************************************************)
(* Claims about the exact enumeration.                                     *)
(***************************************************************************)
\* the edge traversals of a combination in flow order, each with its flow's size
RECURSIVE Traversals(_, _, _)
Traversals(alloc, sizes, index) ==
    IF index > Len(alloc) THEN <<>>
    ELSE [i \in 1..(Len(alloc[index]) - 1) |->
              [edge |-> <<alloc[index][i], alloc[index][i + 1]>>, size |-> sizes[index]]]
         \o Traversals(alloc, sizes, index + 1)

\* what the first j traversals subtract from the edge e
RECURSIVE Subtracted(_, _, _)
Subtracted(steps, e, j) ==
    IF j = 0 THEN 0
    ELSE (IF steps[j].edge = e THEN steps[j].size ELSE 0) + Subtracted(steps, e, j - 1)

\* subtracting in flow order from the attributes before, some traversal leaves
\* its edge strictly below the edge's mincap
CongestedInOrder(before, alloc, sizes) ==
    LET steps == Traversals(alloc, sizes, 1)
    IN  \E j \in 1..Len(steps) :
            before[steps[j].edge].capacity - Subtracted(steps, steps[j].edge, j)
                < before[steps[j].edge].mincap

\* the ways of choosing one path per flow, as indices into the path lists
Choices(flow_paths) ==
    {c \in [1..Len(flow_paths) -> UNION {1..Len(flow_paths[f]) : f \in 1..Len(flow_paths)}] :
        \A f \in 1..Len(flow_paths) : c[f] <= Len(flow_paths[f])}

Chosen(flow_paths, c) == [f \in 1..Len(flow_paths) |-> flow_paths[f][c[f]]]

C13_CallerGraphUntouched ==
    exact.op = "exact"
        => /\ exact.after = exact.before
           /\ \A i \in 1..Len(exact.trace) : exact.trace[i].start = exact.before

\* a call with several combinations, the first of which subtracted a positive
\* size and was congested
C13_Witness ==
    /\ exact.op = "exact"
    /\ Len(exact.trace) >= 2
    /\ exact.trace[1].congested
    /\ \A f \in 1..Len(exact.flow_sizes) : exact.flow_sizes[f] > 0
    /\ exact.after = exact.before

(***************************************************************************)
(* getMinCapacity, getPathProbability and flowCongestionProbability, on a  *)
(* graph whose edges carry a capacity.  A call that raises reports the     *)
(* exception's name in raised.                                             *)
(***************************************************************************)
\* min(caps): the least element of a list, ValueError on the empty list
RECURSIVE Least(_, _)
Least(caps, least) ==
    IF caps = <<>> THEN least
    ELSE Least(Tail(caps), IF Head(caps) < least THEN Head(caps) ELSE least)

min(caps) ==
    IF caps = <<>>
    THEN [raised |-> "ValueError", ret |-> 0]
    ELSE [raised |-> "", ret |-> Least(Tail(caps), Head(caps))]

\* lines 259-260
getMinCapacity(g, path) ==
    min([i \in 1..Len(EdgesOf(path)) |-> g.capacity[EdgesOf(path)[i]]])

\* the loop of line 169 over the nodes path[:-1] still to visit
RECURSIVE PathProbabilityFrom(_, _, _, _)
PathProbabilityFrom(g, path, i, probability) ==
    IF i > Len(path) - 1 THEN probability
    ELSE PathProbabilityFrom(g, path, i + 1,
                             FMul(probability, Float(1, Len(Successors(g, path[i])))))

getPathProbability(g, path) == PathProbabilityFrom(g, path, 1, One)

\* line 182: the paths of all_paths whose bottleneck is below flow_size, in
\* order; the comprehension ends at the first getMinCapacity that raises
RECURSIVE PathsCongestion(_, _, _, _)

\* the bottleneck of Head(all_paths) is known: the path is kept or not, and the
\* comprehension goes on
Filtered(bottleneck, g, all_paths, flow_size, kept) ==
    IF bottleneck.raised # ""
    THEN [raised |-> bottleneck.raised, paths |-> <<>>]
    ELSE PathsCongestion(g, Tail(all_paths), flow_size,
                         IF bottleneck.ret < flow_size THEN Append(kept, Head(all_paths))
                         ELSE kept)

PathsCongestion(g, all_paths, flow_size, kept) ==
    IF all_paths = <<>>
    THEN [raised |-> "", paths |-> kept]
    ELSE Filtered(getMinCapacity(g, Head(all_paths)), g, all_paths, flow_size, kept)

\* lines 184-189: the probabilities of the paths added up
RECURSIVE SumPathProbabilities(_, _, _)
SumPathProbabilities(g, paths, congestion_probability) ==
    IF paths = <<>> THEN congestion_probability
    ELSE SumPathProbabilities(g, Tail(paths),
                              FAdd(congestion_probability, getPathProbability(g, Head(paths))))

\* lines 184-191, given what line 182 produced
Summed(g, paths_congestion) ==
    IF paths_congestion.raised # ""
    THEN [raised |-> paths_congestion.raised, ret |-> Zero, paths |-> <<>>]
    ELSE [raised |-> "",
          ret |-> SumPathProbabilities(g, paths_congestion.paths, Zero),
          paths |-> paths_congestion.paths]

flowCongestionProbability(g, ingress_router, egress_router, flow_size) ==
    Summed(g, PathsCongestion(g, getAllPathsLimDAG(g, ingress_router, egress_router, 0, <<>>).paths,
                              flow_size, <<>>))

\* the nodes of the capacitated graph
NetNodes == {"A", "B", "C"}

\* the caller adds an edge with its capacity, and with it its end nodes
AddLink(x, y, capacity) ==
    /\ flow.op = "none"
    /\ <<x, y>> \notin net.edges
    /\ Cardinality(net.edges) < MaxLinks
    /\ net' = [nodes |-> net.nodes \cup {x, y},
               edges |-> net.edges \cup {<<x, y>>},
               capacity |-> [e \in net.edges \cup {<<x, y>>} |->
                                IF e = <<x, y>> THEN capacity ELSE net.capacity[e]]]
    /\ UNCHANGED flow
    /\ UNCHANGED notFlowVars

\* the call returned r
FlowReturned(ingress_router, egress_router, flow_size, r) ==
    flow' = [op |-> "flow", ingress |-> ingress_router, egress |-> egress_router,
             size |-> flow_size, raised |-> r.raised, ret |-> r.ret, paths |-> r.paths]

\* a caller's flowCongestionProbability(dag, ingress, egress, flow_size) between
\* two nodes of its graph; the method keeps nothing between calls
FlowCongestion(ingress_router, egress_router, flow_size) ==
    /\ flow.op = "none"
    /\ ingress_router \in net.nodes
    /\ egress_router \in net.nodes
    /\ FlowReturned(ingress_router, egress_router, flow_size,
                    flowCongestionProbability(net, ingress_router, egress_router, flow_size))
    /\ UNCHANGED net
    /\ UNCHANGED notFlowVars

NextFlow ==
    \/ \E x \in NetNodes, y \in NetNodes, capacity \in 1..MaxCap : AddLink(x, y, capacity)
    \/ \E ingress_router \in NetNodes, egress_router \in NetNodes, flow_size \in 1..(MaxCap + 1) :
           FlowCongestion(ingress_router, egress_router, flow_size)

SpecFlow == Init /\ [][NextFlow]_vars

(***************************************************************************)
(* Claims about the per-flow congestion probability.                       *)
(***************************************************************************)
\* 1 >= x >= 0 for a float x
InUnitInterval(x) == x[1] >= 0 /\ x[1] <= x[2]

\* the product of 1/outDegree over the nodes of p but the last
RECURSIVE ProductOfSplits(_, _, _)
ProductOfSplits(g, p, i) ==
    IF i >= Len(p) THEN One
    ELSE FMul(Float(1, Cardinality({y \in Nodes : <<p[i], y>> \in g.edges})),
              ProductOfSplits(g, p, i + 1))

\* the sum of ProductOfSplits over a set of paths
RECURSIVE SumOverPaths(_, _)
SumOverPaths(g, ps) ==
    IF ps = {} THEN Zero
    ELSE LET p == CHOOSE q \in ps : TRUE
         IN  FAdd(ProductOfSplits(g, p, 1), SumOverPaths(g, ps \ {p}))

\* the loop-free paths from ingress to egress with an edge of capacity below size
BottleneckedPaths(g, ingress, egress, size) ==
    {p \in LoopFreePaths(g, ingress, egress) :
        \E i \in 1..(Len(p) - 1) : g.capacity[<<p[i], p[i + 1]>>] < size}

\* C14: for every graph, every pair of its nodes and every flow size,
\* flowCongestionProbability returns a value in [0,1] that is the sum of the path
\* probabilities (product of 1/outDegree over the path's non-terminal nodes) of
\* exactly the loop-free ingress-to-egress paths whose minimum edge capacity is
\* strictly less than the flow size.
C14_FlowProbability ==
    flow.op = "flow"
        => /\ flow.raised = ""
           /\ InUnitInterval(flow.ret)
           /\ flow.ret = SumOverPaths(net, BottleneckedPaths(net, flow.ingress, flow.egress,
                                                             flow.size))

(***************************************************************************)
(* SampledCongestionProbability(m, n, percentage, estimate): m is the list *)
(* of the paths' available capacities and n the list of flow sizes.  Path *)
(* indices are those of range(len(m)): 0, 1, ..                            *)
(***************************************************************************)
\* it.combinations_with_replacement(range(P), r) restricted to first elements
\* lo and above: the non-decreasing r-tuples, in lexicographic order
RECURSIVE CombinationsFrom(_, _, _)
CombinationsFrom(lo, P, r) ==
    IF r = 0 THEN << <<>> >>
    ELSE IF lo > P - 1 THEN <<>>
    ELSE Prepend(lo, CombinationsFrom(lo, P, r - 1)) \o CombinationsFrom(lo + 1, P, r)

combinations_with_replacement(P, r) == CombinationsFrom(0, P, r)

\* it.permutations(p): the orderings of the positions of p, equal elements
\* giving equal tuples several times
Without(p, i) == SubSeq(p, 1, i - 1) \o SubSeq(p, i + 1, Len(p))

RECURSIVE permutations(_)
RECURSIVE PermutationsStartingAt(_, _)
PermutationsStartingAt(p, i) ==
    IF i > Len(p) THEN <<>>
    ELSE Prepend(p[i], permutations(Without(p, i))) \o PermutationsStartingAt(p, i + 1)

permutations(p) == IF p = <<>> THEN << <<>> >> ELSE PermutationsStartingAt(p, 1)

RECURSIVE AllAllocs(_)

\* AllAllocs without the expansion "for t in it.permutations(p)"
AllAllocsUnpermuted(combinations) == combinations

\* line 118: [t for p in combinations for t in it.permutations(p)]
AllAllocs(combinations) ==
    IF combinations = <<>> THEN <<>>
    ELSE permutations(Head(combinations)) \o AllAllocs(Tail(combinations))

\* lines 119-120: the allocations of all_allocs in order, each kept once
RECURSIVE FinalAllocs(_, _)
FinalAllocs(all_allocs, final_allocs) ==
    IF all_allocs = <<>> THEN final_allocs
    ELSE FinalAllocs(Tail(all_allocs),
                     IF Head(all_allocs) \in Range(final_allocs) THEN final_allocs
                     ELSE Append(final_allocs, Head(all_allocs)))

\* lines 145-147: required_sizes[a], the sizes of the flows alloc puts on path a
RECURSIVE RequiredSize(_, _, _, _)
RequiredSize(alloc, n, a, i) ==
    IF i > Len(alloc) THEN 0
    ELSE (IF alloc[i] = a THEN n[i] ELSE 0) + RequiredSize(alloc, n, a, i + 1)

\* lines 149-150: some path's balance available - required is negative
Congestion(m, n, alloc) ==
    \E a \in 0..(Len(m) - 1) : m[a + 1] - RequiredSize(alloc, n, a, 1) < 0

\* lines 142-152: the number of congested allocations among sampled_allocs
RECURSIVE CongestedSamples(_, _, _)
CongestedSamples(m, n, sampled_allocs) ==
    IF sampled_allocs = <<>> THEN 0
    ELSE (IF Congestion(m, n, Head(sampled_allocs)) THEN 1 ELSE 0)
         + CongestedSamples(m, n, Tail(sampled_allocs))

\* a Python number passed as percentage: the int num (den = 1), or the float num/den
PyInt(k) == [int |-> TRUE, num |-> k, den |-> 1]
PyFloat(num, den) == [int |-> FALSE, num |-> num, den |-> den]

\* a // b of Python 2 ints, a >= 0 and b # 0: the floor of the quotient
FloorDiv(a, b) == IF b > 0 THEN a \div b ELSE -((a + (-b) - 1) \div (-b))

\* line 133: n_samples/percentage, floor division between ints and true
\* division by a float (a positive one here)
PortionSamples(n_samples, percentage) ==
    IF percentage.num = 0
    THEN [raised |-> "ZeroDivisionError", k |-> PyInt(0)]
    ELSE IF percentage.int
    THEN [raised |-> "", k |-> PyInt(FloorDiv(n_samples, percentage.num))]
    ELSE [raised |-> "", k |-> PyFloat(n_samples * percentage.den, percentage.num)]

\* random.sample(xrange(n_samples), k) of line 136 raises ValueError unless
\* 0 <= k <= n_samples, and then TypeError on [None] * k when k is a float
SampleRaises(n_samples, portion) ==
    IF portion.raised # "" THEN portion.raised
    ELSE IF ~(0 <= portion.k.num /\ portion.k.num <= n_samples * portion.k.den)
    THEN "ValueError"
    ELSE IF ~portion.k.int THEN "TypeError"
    ELSE ""

\* what random.sample may return, as sets of positions 1..n_samples of final_allocs
Samples(n_samples, portion) ==
    {S \in SUBSET (1..n_samples) : Cardinality(S) = portion.k.num}

\* sorted(..) of line 136
sorted(S, n_samples) == SelectInOrder([i \in 1..n_samples |-> i], S)

\* a lap that gave prob, or raised
LapOf(total_samples, congested_samples) ==
    IF total_samples = 0
    THEN [raised |-> "ZeroDivisionError", prob |-> Zero]
    ELSE [raised |-> "", prob |-> Float(congested_samples, total_samples)]

\* lines 139-154 for the sorted indices drawn
Lap(m, n, final_allocs, indices) ==
    LapOf(Len(indices),
          CongestedSamples(m, n, [i \in 1..Len(indices) |-> final_allocs[indices[i]]]))

\* the loop of line 131 over the laps, one draw a lap, ended by a lap that raises
RECURSIVE Laps(_, _, _, _, _)
LapDone(lap, m, n, final_allocs, draws, probs) ==
    IF lap.raised # ""
    THEN [raised |-> lap.raised, probs |-> probs]
    ELSE Laps(m, n, final_allocs, Tail(draws), Append(probs, lap.prob))

Laps(m, n, final_allocs, draws, probs) ==
    IF draws = <<>>
    THEN [raised |-> "", probs |-> probs]
    ELSE LapDone(Lap(m, n, final_allocs, sorted(Head(draws), Len(final_allocs))),
                 m, n, final_allocs, draws, probs)

RECURSIVE FSum(_)
FSum(probs) == IF probs = <<>> THEN Zero ELSE FAdd(Head(probs), FSum(Tail(probs)))

\* probs.mean()
Mean(probs) == FMul(FSum(probs), Float(1, Len(probs)))

\* probs.std() is the square root of the mean squared deviation
Std(probs) ==
    [sqrt_of |-> Mean([i \in 1..Len(probs) |->
                          FMul(FSub(probs[i], Mean(probs)), FSub(probs[i], Mean(probs)))])]

\* lines 156-161: (probs[0], None) without estimate, (mean, std) with
ReturnPair(estimate, laps) ==
    IF laps.raised # ""
    THEN [raised |-> laps.raised, first |-> Zero, second_is_None |-> FALSE,
          second |-> [sqrt_of |-> Zero]]
    ELSE IF estimate = 0
    THEN [raised |-> "", first |-> laps.probs[1], second_is_None |-> TRUE,
          second |-> [sqrt_of |-> Zero]]
    ELSE [raised |-> "", first |-> Mean(laps.probs), second_is_None |-> FALSE,
          second |-> Std(laps.probs)]

\* lines 118-120: the allocation space for P paths and F flows
AllocationSpace(P, F) == FinalAllocs(AllAllocs(combinations_with_replacement(P, F)), <<>>)

\* lines 126-128
NumberOfLaps(estimate) == IF estimate # 0 THEN estimate ELSE 1

\* the call, given what random.sample returns in each lap that reaches it
SampledCongestionProbability(m, n, percentage, estimate, draws) ==
    IF SampleRaises(Len(AllocationSpace(Len(m), Len(n))),
                    PortionSamples(Len(AllocationSpace(Len(m), Len(n))), percentage)) # ""
    THEN ReturnPair(estimate,
                  [raised |-> SampleRaises(Len(AllocationSpace(Len(m), Len(n))),
                                           PortionSamples(Len(AllocationSpace(Len(m), Len(n))),
                                                          percentage)),
                   probs |-> <<>>])
    ELSE ReturnPair(estimate, Laps(m, n, AllocationSpace(Len(m), Len(n)), draws, <<>>))

\* the draws random.sample can make in a call: none when the first lap raises on
\* line 133 or 136, else one sample of the portion's size a lap
Draws(n_samples, portion, laps) ==
    IF SampleRaises(n_samples, portion) # "" THEN {<<>>}
    ELSE [1..laps -> Samples(n_samples, portion)]

\* the call returned, or raised, r
SampledReturned(m, n, percentage, estimate, draws, r) ==
    sampled' = [op |-> "sampled", m |-> m, n |-> n, percentage |-> percentage,
                estimate |-> estimate,
                final_allocs |-> AllocationSpace(Len(m), Len(n)),
                draws |-> draws,
                raised |-> r.raised, first |-> r.first,
                second_is_None |-> r.second_is_None, second |-> r.second]

\* a caller's SampledCongestionProbability(m, n, percentage, estimate); the method
\* keeps nothing between calls
SampledCongestion(m, n, percentage, estimate) ==
    /\ sampled.op = "none"
    /\ \E draws \in Draws(Len(AllocationSpace(Len(m), Len(n))),
                          PortionSamples(Len(AllocationSpace(Len(m), Len(n))), percentage),
                          NumberOfLaps(estimate)) :
           SampledReturned(m, n, percentage, estimate, draws,
                           SampledCongestionProbability(m, n, percentage, estimate, draws))
    /\ UNCHANGED notSampledVars

\* the lists of available capacities of one or two paths
AvailableCapacities ==
    {<<c>> : c \in 1..MaxCap} \cup {<<c, d>> : c \in 1..MaxCap, d \in 1..MaxCap}

\* the lists of sizes of up to MaxFlows flows
FlowSizes == UNION {[1..f -> 0..MaxSize] : f \in 0..MaxFlows}

\* a negative percentage, 0, the percentages 1 and 2, one above the size of the
\* allocation space, and the float 0.5
Percentages == {PyInt(k) : k \in {-1, 0, 1, 2, MaxPercentage}} \cup {PyFloat(1, 2)}

NextSampled ==
    \E m \in AvailableCapacities, n \in FlowSizes, percentage \in Percentages,
       estimate \in {0, 1} :
        SampledCongestion(m, n, percentage, estimate)

SpecSampled == Init /\ [][NextSampled]_vars

(***************************************************************************)
(* Claims about the sampled estimation.                                    *)
(***************************************************************************)
\* the request asks for no sample (an integer percentage above the size of the
\* allocation space), has a negative percentage, or asks for more samples than
\* there are allocations (a percentage between 0 and 1)
DegenerateRequest ==
    \/ sampled.percentage.int /\ sampled.percentage.num > Len(sampled.final_allocs)
    \/ sampled.percentage.num < 0
    \/ /\ sampled.percentage.num > 0
       /\ sampled.percentage.num < sampled.percentage.den
       /\ Len(sampled.final_allocs) > 0

\* C15: SampledCongestionProbability called with a degenerate sampling request
\* fails with an InvalidSamplingParameter condition, neither returning a value nor
\* failing with another error.
C15_DegenerateRequestIsRejected ==
    (sampled.op = "sampled" /\ DegenerateRequest)
        => sampled.raised = "InvalidSamplingParameter"

\* the assignments of F flows to P paths
Assignments(P, F) == [1..F -> 0..(P - 1)]

\* the sizes of the flows the assignment a puts on path x exceed its capacity
Overflows(m, n, a) ==
    \E x \in 0..(Len(m) - 1) :
        LET onPath == {i \in 1..Len(n) : a[i] = x}
            sizes == [i \in 1..Len(n) |-> IF i \in onPath THEN n[i] ELSE 0]
        IN  FSum([i \in 1..Len(n) |-> Float(sizes[i], 1)])[1] > m[x + 1]

RECURSIVE Power(_, _)
Power(b, e) == IF e = 0 THEN 1 ELSE b * Power(b, e - 1)

C16_ConstructionRecovers ==
    [][(~up /\ (~file.exists \/ ~loads(file.data).ok) /\ last'.op = "init")
          => /\ up'
             /\ sdict' = EmptyDict
             /\ file'.exists
             /\ loads(file'.data).ok
             /\ loads(file'.data).dict = EmptyDict
             /\ ~loadSDict(file').failed
             /\ loadSDict(file').sdict = EmptyDict
             /\ loadSDict(file').file = file']_vars

\* an engine constructed over a file that a crash inside dumpSDict left torn
C16_Witness ==
    /\ up
    /\ last.op = "init"
    /\ ~last.hit
    /\ lost # {}
    /\ sdict = EmptyDict
    /\ file = FileOf(dumps(EmptyDict))

(***************************************************************************)
(* SCongestionProbability called from two threads of one process on one    *)
(* ProbabiliyCalculator, without a lock.  Under the interpreter lock a     *)
(* thread switch falls between two statements: each step below is one      *)
(* statement of lines 59-66 and 35-37.  The recursion of line 63 is one    *)
(* step: every value it stores is the value the recurrence gives its key,  *)
(* whichever thread stores it.                                             *)
(***************************************************************************)
\* thread t is inside a call
Busy(t) == threads[t].pc \notin {"idle", "done"}

\* thread t takes a step to the local state next
Step(t, next) ==
    /\ threads' = [threads EXCEPT ![t] = next]
    /\ interleaved' = (interleaved \/ \E u \in Threads \ {t} : Busy(u))
    /\ UNCHANGED notThreadVars

\* thread t calls SCongestionProbability(m, n, k)
ThreadCall(t, m, n, k) ==
    /\ up
    /\ threads[t].pc = "idle"
    /\ Step(t, [threads[t] EXCEPT !.pc = "check", !.key = <<m, n, k>>])
    /\ UNCHANGED <<sdict, file>>

\* lines 59-60: the key is in the store and its complement is returned, or not
ThreadCheck(t) ==
    /\ threads[t].pc = "check"
    /\ Step(t, IF threads[t].key \in DOMAIN sdict
               THEN [threads[t] EXCEPT !.pc = "done",
                                       !.ret = FSub(One, sdict[threads[t].key])]
               ELSE [threads[t] EXCEPT !.pc = "compute", !.missed = TRUE])
    /\ UNCHANGED <<sdict, file>>

\* SNonCongestionProbability returned r to thread t
Computed(t, r) ==
    /\ sdict' = r.sdict
    /\ Step(t, [threads[t] EXCEPT !.pc = "store", !.sncp = r.ret])

\* line 63: sncp = self.SNonCongestionProbability(m, n, k)
ThreadCompute(t) ==
    /\ threads[t].pc = "compute"
    /\ Computed(t, SNonCongestionProbability(sdict, threads[t].key[1], threads[t].key[2],
                                             threads[t].key[3]))
    /\ UNCHANGED file

\* line 64: self.sdict[(m,n,k)] = sncp
ThreadStore(t) ==
    /\ threads[t].pc = "store"
    /\ sdict' = Put(sdict, threads[t].key, threads[t].sncp)
    /\ Step(t, [threads[t] EXCEPT !.pc = "open"])
    /\ UNCHANGED file

\* line 35: open(self.dump_filename, 'wb') truncates the file
ThreadOpen(t) ==
    /\ threads[t].pc = "open"
    /\ file' = FileOf(<<>>)
    /\ Step(t, [threads[t] EXCEPT !.pc = "dumps"])
    /\ UNCHANGED sdict

\* line 36: data = marshal.dumps(self.sdict, 4)
ThreadDumps(t) ==
    /\ threads[t].pc = "dumps"
    /\ Step(t, [threads[t] EXCEPT !.pc = "write", !.data = dumps(sdict)])
    /\ UNCHANGED <<sdict, file>>

\* WriteAtStart when the data written is never flushed to the file
WriteUnflushed(old, data) == old

\* data written from offset 0 of a file that holds old: what old holds beyond the
\* length of data stays
WriteAtStart(old, data) == data \o SubSeq(old, Len(data) + 1, Len(old))

\* line 37 and the end of the with block: dfile.write(data) reaches the file
ThreadWrite(t) ==
    /\ threads[t].pc = "write"
    /\ file' = FileOf(WriteAtStart(file.data, threads[t].data))
    /\ Step(t, [threads[t] EXCEPT !.pc = "return"])
    /\ UNCHANGED sdict

\* line 66: return 1.0 - sncp
ThreadReturn(t) ==
    /\ threads[t].pc = "return"
    /\ Step(t, [threads[t] EXCEPT !.pc = "done", !.ret = FSub(One, threads[t].sncp)])
    /\ UNCHANGED <<sdict, file>>

NextThreads ==
    \/ Construct
    \/ \E t \in Threads, key \in Asked : ThreadCall(t, key[1], key[2], key[3])
    \/ \E t \in Threads : ThreadCheck(t)
    \/ \E t \in Threads : ThreadCompute(t)
    \/ \E t \in Threads : ThreadStore(t)
    \/ \E t \in Threads : ThreadOpen(t)
    \/ \E t \in Threads : ThreadDumps(t)
    \/ \E t \in Threads : ThreadWrite(t)
    \/ \E t \in Threads : ThreadReturn(t)

SpecThreads == Init /\ [][NextThreads]_vars

\* C17: a call that runs alone is safe: once the calls have returned without
\* their steps having interleaved, the file holds the whole store, every entry a
\* call inserted included.  Without a lock the store is not safe: see
\* C17_Witness, a reachable state in which both calls have returned and the file
\* lacks an entry that a completed call inserted.
C17_SafeWhenNotInterleaved ==
    (~interleaved /\ up /\ \A t \in Threads : ~Busy(t))
        => /\ loads(file.data).ok
           /\ loads(file.data).dict = sdict
           /\ \A t \in Threads :
                  (threads[t].pc = "done" /\ threads[t].missed)
                      => /\ threads[t].key \in DOMAIN loads(file.data).dict
                         /\ loads(file.data).dict[threads[t].key] = threads[t].sncp

\* both calls have returned, their steps interleaved, and the file loads without
\* the entry one of the completed calls inserted (a lost update); the file's
\* content past the dump it begins with is what the other thread's write left
C17_Witness ==
    /\ interleaved
    /\ \A t \in Threads : threads[t].pc = "done" /\ threads[t].missed
    /\ loads(file.data).ok
    /\ \E t \in Threads :
           /\ threads[t].key \in DOMAIN sdict
           /\ threads[t].key \notin DOMAIN loads(file.data).dict
    /\ file.data # dumps(loads(file.data).dict)

(***************************************************************************)
(* Claims about the short-circuit of the exact enumeration.                *)
(***************************************************************************)
\* all flows of the combination subtracted along all their paths, some traversed
\* edge ends below its mincap
CongestedAtTheEnd(before, alloc, sizes) ==
    LET steps == Traversals(alloc, sizes, 1)
    IN  \E j \in 1..Len(steps) :
            before[steps[j].edge].capacity - Subtracted(steps, steps[j].edge, Len(steps))
                < before[steps[j].edge].mincap

\* a graph object with the attributes before
GraphOf(before) ==
    [heap |-> [i \in 1..Len(EdgeOrder) |-> before[EdgeOrder[i]]],
     cell |-> [e \in CapEdges |-> EdgeIndex(e)]]

\* the orders in which F flows can be passed
FlowOrders(F) == {o \in [1..F -> 1..F] : \A i \in 1..F, j \in 1..F : o[i] = o[j] => i = j}

FlowLines == [start_time : 0..MaxStart, known : BOOLEAN]

FlowFiles == UNION {[1..n -> FlowLines] : n \in 0..MaxGenFlows}

\* what requests.post does
Outcomes == {"ok", "exception"}

\* lines 194-220: the flows of the lines whose hosts exist, in file order
RECURSIVE ParsedFlows(_)
ParsedFlows(lines) ==
    IF lines = <<>> THEN <<>>
    ELSE IF Head(lines).known
         THEN <<[start_time |-> Head(lines).start_time]>> \o ParsedFlows(Tail(lines))
         ELSE ParsedFlows(Tail(lines))

\* the sequence q without its i-th element
Remove(q, i) == SubSeq(q, 1, i - 1) \o SubSeq(q, i + 1, Len(q))

\* lines 100-106: a thread is started on _createFlow(f), f the flow, and what
\* Thread.start() returned, None, is appended to thread_handlers; no time
\* has passed when createFlow returns, and the thread has its whole
\* start_time to sleep
createFlow(g, f) ==
    [g EXCEPT !.thread_handlers = Append(@, "None"),
              !.created = Append(@, [pc |-> "sleep",
                                     remaining |-> f.start_time,
                                     waited |-> 0,
                                     sent |-> <<>>])]

\* informLBController without the try of lines 83-85: the exception leaves
\* _createFlow and ends the thread
informLBControllerWithoutTry(g, i, outcome) ==
    [g EXCEPT !.created[i].sent = Append(@, [url |-> "newflowstarted",
                                             outcome |-> outcome]),
              !.created[i].pc = IF outcome = "exception" THEN "dead" ELSE "startflow"]

\* lines 75-90: the request is posted to the controller; an exception is
\* logged, and the method returns either way
informLBController(g, i, outcome) ==
    [g EXCEPT !.created[i].sent = Append(@, [url |-> "newflowstarted",
                                             outcome |-> outcome]),
              !.created[i].pc = "startflow"]

\* lines 46-58: the address of the controller is looked up; _lbc_ip is None
\* when the lookup raises
GeneratorConstruct(lbc_found) ==
    /\ tg.pc = "start"
    /\ tg' = [tg EXCEPT !.pc = "constructed", !._lbc_ip = lbc_found]
    /\ UNCHANGED notGeneratorVars

\* lines 189-220: one event per flow whose hosts exist is entered in the
\* scheduler; lines 224-225 and 324-325: with no line at all the process
\* goes on to serve
scheduleFileFlows(lines) ==
    /\ tg.pc = "constructed"
    /\ tg' = [tg EXCEPT !.pc = IF lines = <<>> THEN "serving" ELSE "running",
                        !.queue = ParsedFlows(lines)]
    /\ UNCHANGED notGeneratorVars

\* line 223, one event of scheduler.run(): all events have delay 0 and
\* priority 1, so any of them may be the next; its action createFlow(flow) is
\* called
RunEvent(e) ==
    /\ tg.pc = "running"
    /\ e \in 1..Len(tg.queue)
    /\ tg' = createFlow([tg EXCEPT !.queue = Remove(@, e)], tg.queue[e])
    /\ UNCHANGED notGeneratorVars

\* line 223 returns when the queue is empty; lines 324-325: the server starts
RunReturns ==
    /\ tg.pc = "running"
    /\ tg.queue = <<>>
    /\ tg' = [tg EXCEPT !.pc = "serving"]
    /\ UNCHANGED notGeneratorVars

\* lines 231-258: a start-flow command arrives and its flow is handed to
\* createFlow
OrchestrateStartFlow(start_time) ==
    /\ tg.pc = "serving"
    /\ Len(tg.created) < MaxGenFlows
    /\ tg' = createFlow(tg, [start_time |-> start_time])
    /\ UNCHANGED notGeneratorVars

\* a tick of the clock: every sleeping thread has one tick less to sleep
Tick ==
    /\ \E i \in 1..Len(tg.created) :
           tg.created[i].pc = "sleep" /\ tg.created[i].remaining > 0
    /\ tg' = [tg EXCEPT !.created =
                  [i \in 1..Len(tg.created) |->
                      IF tg.created[i].pc = "sleep" /\ tg.created[i].remaining > 0
                      THEN [tg.created[i] EXCEPT !.remaining = @ - 1]
                      ELSE tg.created[i]]]
    /\ UNCHANGED notGeneratorVars

\* lines 115-118: time.sleep(flow['start_time']) returns; the controller is
\* informed if its address is known
Wake(i) ==
    /\ i \in 1..Len(tg.created)
    /\ tg.created[i].pc = "sleep"
    /\ tg.created[i].remaining = 0
    /\ tg' = [tg EXCEPT !.created[i].pc = IF tg._lbc_ip THEN "inform" ELSE "startflow"]
    /\ UNCHANGED notGeneratorVars

\* line 119
Inform(i, outcome) ==
    /\ i \in 1..Len(tg.created)
    /\ tg.created[i].pc = "inform"
    /\ tg' = informLBController(tg, i, outcome)
    /\ UNCHANGED notGeneratorVars

\* lines 124-148: the start-flow request is posted to the source host; an
\* exception is logged, and the thread ends either way
StartFlow(i, outcome) ==
    /\ i \in 1..Len(tg.created)
    /\ tg.created[i].pc = "startflow"
    /\ tg' = [tg EXCEPT !.created[i].sent = Append(@, [url |-> "startflow",
                                                       outcome |-> outcome]),
                        !.created[i].pc = "done"]
    /\ UNCHANGED notGeneratorVars

\* a step of the _createFlow thread of the i-th flow
_createFlow(i) ==
    \/ Wake(i)
    \/ \E outcome \in Outcomes : Inform(i, outcome)
    \/ \E outcome \in Outcomes : StartFlow(i, outcome)

NextGenerator ==
    \/ \E lbc_found \in BOOLEAN : GeneratorConstruct(lbc_found)
    \/ \E lines \in FlowFiles : scheduleFileFlows(lines)
    \/ \E e \in 1..MaxGenFlows : RunEvent(e)
    \/ RunReturns
    \/ \E start_time \in 0..MaxStart : OrchestrateStartFlow(start_time)
    \/ Tick
    \/ \E i \in 1..MaxGenFlows : _createFlow(i)

\* the clock advances and every started thread is scheduled again and again
SpecGenerator ==
    /\ Init
    /\ [][NextGenerator]_vars
    /\ WF_vars(Tick)
    /\ \A i \in 1..MaxGenFlows : WF_vars(_createFlow(i))

\* the positions, among the requests of the thread of flow i, of those to url
Attempts(i, url) ==
    {p \in 1..Len(tg.created[i].sent) : tg.created[i].sent[p].url = url}

\* the start-flow request of flow i has been attempted
StartAttempted(i) == i \in 1..Len(tg.created) /\ Attempts(i, "startflow") # {}

\* what holds of every created thread at every moment: it has not been ended
\* by an exception, it is done only with its start-flow request attempted,
\* its notification, if due, came first, and createFlow returned at once
C21_Order ==
    \A i \in 1..Len(tg.created) :
        /\ tg.created[i].pc \in {"sleep", "inform", "startflow", "done"}
        /\ tg.created[i].pc = "done" => StartAttempted(i)
        /\ tg._lbc_ip =>
               \A p \in Attempts(i, "startflow") :
                   \E q \in Attempts(i, "newflowstarted") : q < p
        /\ tg.created[i].waited = 0
        /\ Len(tg.thread_handlers) = Len(tg.created)

\* C21: for every flow handed to createFlow, from the file or from a
\* start-flow command: with the controller's address known, the notification
\* to the controller is attempted before the start-flow request to the source
\* host; no thread is ended by an exception of a request, and the start-flow
\* request of every flow is eventually attempted whatever the requests before
\* it did; createFlow returns with no tick waited, whatever the start_time, so
\* a later flow is created while an earlier one still sleeps.
C21_FlowsStartIndependently ==
    /\ []C21_Order
    /\ \A i \in 1..MaxGenFlows : (Len(tg.created) >= i) ~> StartAttempted(i)

\* the controller is known; the first flow still has its whole start_time
\* to sleep when the second, created after it, has had its notification fail
\* and its start-flow request attempted all the same
C21_Witness ==
    /\ tg._lbc_ip
    /\ Len(tg.created) = 2
    /\ tg.created[1].pc = "sleep"
    /\ tg.created[1].remaining = MaxStart
    /\ tg.created[1].waited = 0
    /\ tg.created[2].pc = "done"
    /\ tg.created[2].sent = <<[url |-> "newflowstarted", outcome |-> "exception"],
                              [url |-> "startflow", outcome |-> "exception"]>>

====
